---- MODULE Spec2Model ----
(***************************************************************************)
(* Model of logger/logger.py: the Logger that appends sensor readings to   *)
(* an active CSV file, rotates it into zip archives and prunes archives.   *)
(*                                                                         *)
(* Time is a discrete wall clock `now` counted in ticks.  A clock second   *)
(* is SecTicks ticks, a (scaled) hour HourTicks ticks and a (scaled) day   *)
(* DayTicks ticks.  File sizes are counted in units: the header line and   *)
(* every data row weigh one unit, and a (scaled) MiB is MiB units.         *)
(***************************************************************************)
EXTENDS Integers, Sequences, FiniteSets, TLC

\* ---- bounds of the model ------------------------------------------------
NumThreads == 2
MaxCalls == 3
MaxClock == 2
MaxFaults == 1
SecTicks == 2
HourTicks == 2
DayTicks == 2
MiB == 3
Far == 9

Threads == 1..NumThreads
NoThread == 0
Sensors == {"s1"}

\* ---- configuration (Logger.__init__, lines 15-24) ------------------------
Cfg(ra, re, ms, rd, ps) ==
  [rotate_after |-> ra, rotate_every |-> re, max_size |-> ms,
   retention |-> rd, per_second |-> ps]

\* the configurations of a single-caller run
Configs ==
  { Cfg(ra, re, ms, rd, ps) :
      ra \in {1, 2}, re \in {1, Far}, ms \in {1, Far}, rd \in {1, Far},
      ps \in BOOLEAN }

\* the configurations of a run with several calling threads
ThreadConfigs ==
  { Cfg(2, Far, Far, Far, FALSE),    \* rotation after two lines
    Cfg(1, Far, Far, Far, FALSE) }   \* every update rotates

VARIABLES
  now,           \* wall clock (datetime.now()), in ticks
  cfg,           \* the configuration read by __init__
  files,         \* log_dir: file name -> [hdr, rows, mtime, ctime]
  archives,      \* archive_dir: [base, ts] -> [hdr, rows, bad]
  current_file,  \* self.current_file (a name)
  fp,            \* self._fp: [open, buf]
  line_count,    \* self._line_count
  lock,          \* self._lock: holder or NoThread
  pc,            \* position of each thread inside update
  rec,           \* the record built by each update call
  stamp,         \* local `timestamp` of _rotate, per thread
  res,           \* outcome of each thread's last update call
  log,           \* history: rows that reached the disk, in order
  nCalls,        \* history: number of update calls made
  faults,        \* history: number of injected I/O failures
  rotFailed,     \* history: some _rotate raised
  reader,        \* a read_logs call in progress: its locals and outcome
  sensor         \* a Sensor with its observers

loggerVars == <<now, cfg, files, archives, current_file, fp, line_count,
                lock, pc, rec, stamp, res, log, nCalls, faults, rotFailed>>

vars == <<now, cfg, files, archives, current_file, fp, line_count, lock,
          pc, rec, stamp, res, log, nCalls, faults, rotFailed, reader,
          sensor>>

NoRec == [timestamp |-> 0, sensor_id |-> "", value |-> 0]

\* no read_logs call has been made
NoReader == [pc |-> "idle"]

\* no sensor is part of the run
NoSensor == [active |-> FALSE]

\* ---- helpers ------------------------------------------------------------
\* datetime.now().strftime(self.filename_pattern): a pattern without time
\* fields always yields the same name, one with %S a name per clock second.
FileName(c, t) == IF c.per_second THEN t \div SecTicks ELSE 0

\* datetime.now().strftime('%Y%m%d%H%M%S'): the clock truncated to seconds.
StampOf(t) == t \div SecTicks

ArchiveName(base, ts) == [base |-> base, ts |-> ts]

Put(f, k, v) == [x \in DOMAIN f \cup {k} |-> IF x = k THEN v ELSE f[x]]
Drop(f, k) == [x \in DOMAIN f \ {k} |-> f[x]]

\* Path.stat().st_size, in units of one line
Size(f) == f.hdr + Len(f.rows)

\* _open_file: open in append mode (creating the file when absent) and
\* write the header when the file did not exist before.
\* a header written on every open
OpenFileHeaderAlways(fs, name, t) ==
  IF name \in DOMAIN fs THEN [fs EXCEPT ![name] = [@ EXCEPT !.hdr = @ + 1]]
  ELSE Put(fs, name, [hdr |-> 1, rows |-> <<>>, mtime |-> t, ctime |-> t])

OpenFile(fs, name, t) ==
  IF name \in DOMAIN fs THEN fs
  ELSE Put(fs, name, [hdr |-> 1, rows |-> <<>>, mtime |-> t, ctime |-> t])

\* the buffered rows of the handle reach the disk (flush / close)
FlushTo(fs, name, buf, t) ==
  IF buf = <<>> THEN fs
  ELSE [fs EXCEPT ![name] = [@ EXCEPT !.rows = @ \o buf, !.mtime = t]]

\* the count trigger off by one: the file may hold one row more
NeedsRotationStrict(c, lc, f, t) ==
  LET age == t - f.mtime IN
  IF lc > c.rotate_after THEN TRUE
  ELSE IF age >= c.rotate_every * HourTicks THEN TRUE
  ELSE IF Size(f) >= c.max_size * MiB THEN TRUE
  ELSE FALSE

\* the three triggers AND'ed instead of OR'ed
NeedsRotationAll(c, lc, f, t) ==
  LET age == t - f.mtime IN
  /\ lc >= c.rotate_after
  /\ age >= c.rotate_every * HourTicks
  /\ Size(f) >= c.max_size * MiB

\* _needs_rotation
NeedsRotation(c, lc, f, t) ==
  LET age == t - f.mtime IN
  IF lc >= c.rotate_after THEN TRUE
  ELSE IF age >= c.rotate_every * HourTicks THEN TRUE
  ELSE IF Size(f) >= c.max_size * MiB THEN TRUE
  ELSE FALSE

\* ---- initial state: a Logger constructed over an empty log directory ----
Init ==
  /\ now = 0
  /\ cfg \in Configs
  /\ current_file = FileName(cfg, now)
  /\ files = OpenFile(<<>>, current_file, now)
  /\ archives = <<>>
  /\ fp = [open |-> TRUE, buf |-> <<>>]
  /\ line_count = 0
  /\ lock = NoThread
  /\ pc = [t \in Threads |-> "idle"]
  /\ rec = [t \in Threads |-> NoRec]
  /\ stamp = [t \in Threads |-> 0]
  /\ res = [t \in Threads |-> "none"]
  /\ log = <<>>
  /\ nCalls = 0
  /\ faults = 0
  /\ rotFailed = FALSE
  /\ reader = NoReader
  /\ sensor = NoSensor

\* ---- the wall clock -----------------------------------------------------
Tick ==
  /\ now < MaxClock
  /\ now' = now + 1
  /\ UNCHANGED <<cfg, files, archives, current_file, fp, line_count, lock, pc,
                 rec, stamp, res, log, nCalls, faults, rotFailed, reader,
                 sensor>>

\* ---- update -------------------------------------------------------------
\* leaving the `with self._lock:` block normally; the locals of the call
\* (rec, timestamp) go out of scope
Return(t) ==
  /\ lock' = NoThread
  /\ pc' = [pc EXCEPT ![t] = "idle"]
  /\ res' = [res EXCEPT ![t] = "ok"]
  /\ rec' = [rec EXCEPT ![t] = NoRec]
  /\ stamp' = [stamp EXCEPT ![t] = 0]

\* an exception leaves the `with self._lock:` block and reaches the caller
Raise(t, e) ==
  /\ lock' = NoThread
  /\ pc' = [pc EXCEPT ![t] = "idle"]
  /\ res' = [res EXCEPT ![t] = e]
  /\ rec' = [rec EXCEPT ![t] = NoRec]
  /\ stamp' = [stamp EXCEPT ![t] = 0]

\* lines 38-43: the record is built before the lock is taken
Call(t) ==
  /\ pc[t] = "idle"
  /\ nCalls < MaxCalls
  /\ \E s \in Sensors :
       rec' = [rec EXCEPT ![t] =
                 [timestamp |-> now, sensor_id |-> s, value |-> nCalls + 1]]
  /\ nCalls' = nCalls + 1
  /\ pc' = [pc EXCEPT ![t] = "lock"]
  /\ res' = [res EXCEPT ![t] = "running"]
  /\ UNCHANGED <<now, cfg, files, archives, current_file, fp, line_count,
                 lock, stamp, log, faults, rotFailed, reader, sensor>>

\* a lock that does not exclude: entered although another thread holds it
AcquireNoExclusion(t) ==
  /\ pc[t] = "lock"
  /\ lock' = t
  /\ pc' = [pc EXCEPT ![t] = "write"]
  /\ UNCHANGED <<now, cfg, files, archives, current_file, fp, line_count, rec,
                 stamp, res, log, nCalls, faults, rotFailed, reader, sensor>>

\* line 44: with self._lock
Acquire(t) ==
  /\ pc[t] = "lock"
  /\ lock = NoThread
  /\ lock' = t
  /\ pc' = [pc EXCEPT ![t] = "write"]
  /\ UNCHANGED <<now, cfg, files, archives, current_file, fp, line_count, rec,
                 stamp, res, log, nCalls, faults, rotFailed, reader, sensor>>

\* line 45: writerow puts the row into the handle's buffer
WriteRow(t) ==
  /\ pc[t] = "write"
  /\ fp.open
  /\ fp' = [fp EXCEPT !.buf = Append(@, rec[t])]
  /\ pc' = [pc EXCEPT ![t] = "flush"]
  /\ UNCHANGED <<now, cfg, files, archives, current_file, line_count, lock,
                 rec, stamp, res, log, nCalls, faults, rotFailed, reader,
                 sensor>>

\* line 45 on a closed handle: ValueError, I/O operation on closed file
WriteRowClosed(t) ==
  /\ pc[t] = "write"
  /\ ~fp.open
  /\ Raise(t, "ValueError")
  /\ UNCHANGED <<now, cfg, files, archives, current_file, fp, line_count, log,
                 nCalls, faults, rotFailed, reader, sensor>>

\* line 46: flush moves the buffered rows to the file
Flush(t) ==
  /\ pc[t] = "flush"
  /\ files' = FlushTo(files, current_file, fp.buf, now)
  /\ log' = log \o fp.buf
  /\ fp' = [fp EXCEPT !.buf = <<>>]
  /\ pc' = [pc EXCEPT ![t] = "check"]
  /\ UNCHANGED <<now, cfg, archives, current_file, line_count, lock, rec,
                 stamp, res, nCalls, faults, rotFailed, reader, sensor>>

\* a failed flush that still counts the row
FlushFailCounted(t) ==
  /\ pc[t] = "flush"
  /\ faults < MaxFaults
  /\ faults' = faults + 1
  /\ line_count' = line_count + 1
  /\ Raise(t, "OSError:flush")
  /\ UNCHANGED <<now, cfg, files, archives, current_file, fp, log, nCalls,
                 rotFailed, reader, sensor>>

\* line 46 failing with OSError: the rows stay in the buffer
FlushFail(t) ==
  /\ pc[t] = "flush"
  /\ faults < MaxFaults
  /\ faults' = faults + 1
  /\ Raise(t, "OSError:flush")
  /\ UNCHANGED <<now, cfg, files, archives, current_file, fp, line_count, log,
                 nCalls, rotFailed, reader, sensor>>

\* lines 47-49: count the row, evaluate _needs_rotation, branch
Check(t) ==
  /\ pc[t] = "check"
  /\ line_count' = line_count + 1
  /\ IF NeedsRotation(cfg, line_count + 1, files[current_file], now)
       THEN /\ pc' = [pc EXCEPT ![t] = "close"]
            /\ UNCHANGED <<lock, res, rec, stamp>>
       ELSE Return(t)
  /\ UNCHANGED <<now, cfg, files, archives, current_file, fp, log, nCalls,
                 faults, rotFailed, reader, sensor>>

\* ---- _rotate ------------------------------------------------------------
\* lines 62-64: close the handle (flushing it) and take the time stamp
RotateClose(t) ==
  /\ pc[t] = "close"
  /\ files' = FlushTo(files, current_file, fp.buf, now)
  /\ log' = log \o fp.buf
  /\ fp' = [open |-> FALSE, buf |-> <<>>]
  /\ stamp' = [stamp EXCEPT ![t] = StampOf(now)]
  /\ pc' = [pc EXCEPT ![t] = "zip"]
  /\ UNCHANGED <<now, cfg, archives, current_file, line_count, lock, rec, res,
                 nCalls, faults, rotFailed, reader, sensor>>

\* lines 65-66: ZipFile(archive, 'w') creates or truncates the archive and
\* the active file is compressed into it
RotateZip(t) ==
  /\ pc[t] = "zip"
  /\ archives' = Put(archives, ArchiveName(current_file, stamp[t]),
                     [hdr  |-> files[current_file].hdr,
                      rows |-> files[current_file].rows,
                      bad  |-> FALSE])
  /\ pc' = [pc EXCEPT ![t] = "unlink"]
  /\ UNCHANGED <<now, cfg, files, current_file, fp, line_count, lock, rec,
                 stamp, res, log, nCalls, faults, rotFailed, reader, sensor>>

\* a failed compression after which the original is deleted all the same
RotateZipFailUnlinks(t) ==
  /\ pc[t] = "zip"
  /\ faults < MaxFaults
  /\ faults' = faults + 1
  /\ \E created \in BOOLEAN :
       archives' = IF created
                     THEN Put(archives, ArchiveName(current_file, stamp[t]),
                              [hdr |-> 0, rows |-> <<>>, bad |-> TRUE])
                     ELSE archives
  /\ files' = Drop(files, current_file)
  /\ rotFailed' = TRUE
  /\ Raise(t, "OSError:zip")
  /\ UNCHANGED <<now, cfg, current_file, fp, line_count, log, nCalls, reader,
                 sensor>>

\* lines 65-66 failing: either the archive could not be opened at all, or
\* it was created/truncated and is left incomplete
RotateZipFail(t) ==
  /\ pc[t] = "zip"
  /\ faults < MaxFaults
  /\ faults' = faults + 1
  /\ \E created \in BOOLEAN :
       archives' = IF created
                     THEN Put(archives, ArchiveName(current_file, stamp[t]),
                              [hdr |-> 0, rows |-> <<>>, bad |-> TRUE])
                     ELSE archives
  /\ rotFailed' = TRUE
  /\ Raise(t, "OSError:zip")
  /\ UNCHANGED <<now, cfg, files, current_file, fp, line_count, log, nCalls,
                 reader, sensor>>

\* line 67: the original is deleted
RotateUnlink(t) ==
  /\ pc[t] = "unlink"
  /\ files' = Drop(files, current_file)
  /\ pc' = [pc EXCEPT ![t] = "reopen"]
  /\ UNCHANGED <<now, cfg, archives, current_file, fp, line_count, lock, rec,
                 stamp, res, log, nCalls, faults, rotFailed, reader, sensor>>

\* line 67 failing
RotateUnlinkFail(t) ==
  /\ pc[t] = "unlink"
  /\ faults < MaxFaults
  /\ faults' = faults + 1
  /\ rotFailed' = TRUE
  /\ Raise(t, "OSError:unlink")
  /\ UNCHANGED <<now, cfg, files, archives, current_file, fp, line_count, log,
                 nCalls, reader, sensor>>

\* a rotation that forgets to reset the line count
RotateReopenKeepCount(t) ==
  /\ pc[t] = "reopen"
  /\ current_file' = FileName(cfg, now)
  /\ files' = OpenFile(files, FileName(cfg, now), now)
  /\ fp' = [open |-> TRUE, buf |-> <<>>]
  /\ pc' = [pc EXCEPT ![t] = "cleanup"]
  /\ UNCHANGED <<now, cfg, archives, line_count, lock, rec, stamp, res, log,
                 nCalls, faults, rotFailed, reader, sensor>>

\* lines 68-70: reset the count, name the new active file, open it
RotateReopen(t) ==
  /\ pc[t] = "reopen"
  /\ line_count' = 0
  /\ current_file' = FileName(cfg, now)
  /\ files' = OpenFile(files, FileName(cfg, now), now)
  /\ fp' = [open |-> TRUE, buf |-> <<>>]
  /\ pc' = [pc EXCEPT ![t] = "cleanup"]
  /\ UNCHANGED <<now, cfg, archives, lock, rec, stamp, res, log, nCalls,
                 faults, rotFailed, reader, sensor>>

\* lines 68-70 with the open of line 31 failing
RotateReopenFail(t) ==
  /\ pc[t] = "reopen"
  /\ faults < MaxFaults
  /\ faults' = faults + 1
  /\ line_count' = 0
  /\ current_file' = FileName(cfg, now)
  /\ rotFailed' = TRUE
  /\ Raise(t, "OSError:open")
  /\ UNCHANGED <<now, cfg, files, archives, fp, log, nCalls, reader, sensor>>

\* ---- _cleanup_archives -------------------------------------------------
\* an entry of the archive directory that is no archive of this Logger: its
\* name carries no time stamp and does not end in .zip
Foreign == [name |-> "README"]

\* line 77: strptime succeeds on the last dotted part of the stem
Parsable(k) == "ts" \in DOMAIN k

\* archive_dir.glob('*.zip')
IsZip(k) == "base" \in DOMAIN k

\* the comparison of line 78 made inclusive
ExpiredInclusive(c, k, t) ==
  Parsable(k) /\ k.ts * SecTicks <= t - c.retention * DayTicks

\* lines 74-78: the entry's stamp parses and lies before now - retention
Expired(c, k, t) ==
  Parsable(k) /\ k.ts * SecTicks < t - c.retention * DayTicks

\* a sweep that also removes the entries whose name it cannot parse
CleanupArchivesAll(c, ar, t, failing) ==
  [k \in {x \in DOMAIN ar :
            Parsable(x) /\ (~Expired(c, x, t) \/ x \in failing)} |-> ar[k]]

\* lines 75-81: every expired entry is unlinked; an entry whose name does
\* not parse or whose unlink fails (the set failing) is passed over
CleanupArchives(c, ar, t, failing) ==
  [k \in {x \in DOMAIN ar : ~Expired(c, x, t) \/ x \in failing} |-> ar[k]]

\* line 71, then update returns; any of the unlinks may fail
RotateCleanup(t) ==
  /\ pc[t] = "cleanup"
  /\ \E failing \in SUBSET {k \in DOMAIN archives : Expired(cfg, k, now)} :
       /\ faults + Cardinality(failing) <= MaxFaults
       /\ faults' = faults + Cardinality(failing)
       /\ archives' = CleanupArchives(cfg, archives, now, failing)
  /\ Return(t)
  /\ UNCHANGED <<now, cfg, files, current_file, fp, line_count, log, nCalls,
                 rotFailed, reader, sensor>>

\* several threads share one Logger
Next ==
  \/ Tick
  \/ \E t \in Threads : Call(t)
  \/ \E t \in Threads : Acquire(t)
  \/ \E t \in Threads : WriteRow(t)
  \/ \E t \in Threads : WriteRowClosed(t)
  \/ \E t \in Threads : Flush(t)
  \/ \E t \in Threads : FlushFail(t)
  \/ \E t \in Threads : Check(t)
  \/ \E t \in Threads : RotateClose(t)
  \/ \E t \in Threads : RotateZip(t)
  \/ \E t \in Threads : RotateZipFail(t)
  \/ \E t \in Threads : RotateUnlink(t)
  \/ \E t \in Threads : RotateUnlinkFail(t)
  \/ \E t \in Threads : RotateReopen(t)
  \/ \E t \in Threads : RotateReopenFail(t)
  \/ \E t \in Threads : RotateCleanup(t)

InitThreads == Init /\ cfg \in ThreadConfigs

Spec == InitThreads /\ [][Next]_vars

\* one thread makes all the calls
Caller == 1

NextSeq ==
  \/ Tick
  \/ Call(Caller)
  \/ Acquire(Caller)
  \/ WriteRow(Caller)
  \/ WriteRowClosed(Caller)
  \/ Flush(Caller)
  \/ FlushFail(Caller)
  \/ Check(Caller)
  \/ RotateClose(Caller)
  \/ RotateZip(Caller)
  \/ RotateZipFail(Caller)
  \/ RotateUnlink(Caller)
  \/ RotateUnlinkFail(Caller)
  \/ RotateReopen(Caller)
  \/ RotateReopenFail(Caller)
  \/ RotateCleanup(Caller)

SpecSeq == Init /\ [][NextSeq]_vars

\* ---- a Logger started over an archive directory that has entries --------
\* an archive left by an earlier run, intact or damaged
OldArchive == [hdr |-> 1, rows |-> <<>>, bad |-> FALSE]
Damaged == [hdr |-> 0, rows |-> <<>>, bad |-> TRUE]
Older == ArchiveName(0, 0 - 1)
Old == ArchiveName(0, 0)

SweepConfigs ==
  { Cfg(1, Far, Far, rd, FALSE) : rd \in {0, 1} }

InitSweep ==
  /\ now = 0
  /\ cfg \in SweepConfigs
  /\ current_file = FileName(cfg, now)
  /\ files = OpenFile(<<>>, current_file, now)
  /\ \E c1, c2 \in {OldArchive, Damaged} :
       archives = [k \in {Older, Old, Foreign} |->
                     IF k = Older THEN c1 ELSE IF k = Old THEN c2
                     ELSE Damaged]
  /\ fp = [open |-> TRUE, buf |-> <<>>]
  /\ line_count = 0
  /\ lock = NoThread
  /\ pc = [t \in Threads |-> "idle"]
  /\ rec = [t \in Threads |-> NoRec]
  /\ stamp = [t \in Threads |-> 0]
  /\ res = [t \in Threads |-> "none"]
  /\ log = <<>>
  /\ nCalls = 0
  /\ faults = 0
  /\ rotFailed = FALSE
  /\ reader = NoReader
  /\ sensor = NoSensor

SpecSweep == InitSweep /\ [][NextSeq]_vars

\* ---- read_logs ----------------------------------------------------------
None == "None"
\* bounds of an unbounded time range (datetime.min, datetime.max)
TimeMin == 0 - Far
TimeMax == MaxClock + Far

\* lines 100 and 115: the filter applied to every row
\* a range that leaves out its end points
MatchesExclusive(r, start, end, sid) ==
  /\ start < r.timestamp
  /\ r.timestamp < end
  /\ (sid = None \/ r.sensor_id = sid)

Matches(r, start, end, sid) ==
  /\ start <= r.timestamp
  /\ r.timestamp <= end
  /\ (sid = None \/ r.sensor_id = sid)

\* the orders in which archive_dir.glob('*.zip') may list the archives
Orders(ar) ==
  LET zips == {k \in DOMAIN ar : IsZip(k)}
  IN  {o \in [1..Cardinality(zips) -> zips] :
         \A i, j \in DOMAIN o : o[i] = o[j] => i = j}

RECURSIVE ArchiveRows(_, _)
ArchiveRows(ar, o) ==
  IF o = <<>> THEN <<>> ELSE ar[Head(o)].rows \o ArchiveRows(ar, Tail(o))

\* lines 94-121: the rows of the active file, then those of every archive
Scan(fs, cf, ar, o) ==
  (IF cf \in DOMAIN fs THEN fs[cf].rows ELSE <<>>) \o ArchiveRows(ar, o)

\* sorted(entries, key=timestamp): a stable sort
Insert(s, r) ==
  LET n == Cardinality({i \in DOMAIN s : s[i].timestamp <= r.timestamp})
  IN  SubSeq(s, 1, n) \o <<r>> \o SubSeq(s, n + 1, Len(s))

RECURSIVE SortByTimestamp(_)
SortByTimestamp(s) ==
  IF s = <<>> THEN <<>>
  ELSE Insert(SortByTimestamp(SubSeq(s, 1, Len(s) - 1)), s[Len(s)])

\* read_logs(start, end, sensor_id) when the archives are listed in order o
ReadLogs(fs, cf, ar, o, start, end, sid) ==
  SortByTimestamp(SelectSeq(Scan(fs, cf, ar, o),
                            LAMBDA r : Matches(r, start, end, sid)))

\* ---- read_logs, statement by statement -----------------------------------
\* a stored row that does not decode carries a field `bad`: "timestamp"
\* (fromisoformat raises), "value" (float raises) or "short" (the value
\* column is missing, float(None) raises)
Malformed(r) == "bad" \in DOMAIN r

\* lines 99-100 and 104: fromisoformat runs on every row, float only on a
\* row that passed the filter
RowRaises(r, q) ==
  /\ Malformed(r)
  /\ \/ r.bad = "timestamp"
     \/ Matches(r, q.start, q.end, q.sid)

FileRaises(rows, q) == \E i \in DOMAIN rows : RowRaises(rows[i], q)

\* the exception of the first row that raises: float(None) is a TypeError,
\* an unparsable text a ValueError
RaisedBy(rows, q) ==
  LET i == CHOOSE j \in DOMAIN rows :
             /\ RowRaises(rows[j], q)
             /\ \A k \in 1..(j - 1) : ~RowRaises(rows[k], q)
  IN  IF rows[i].bad = "short" THEN "TypeError" ELSE "ValueError"

\* lines 101-106: the dictionary appended for a row
Decode(r) ==
  [timestamp |-> r.timestamp, sensor_id |-> r.sensor_id, value |-> r.value]

RECURSIVE DecodeAll(_)
DecodeAll(rows) ==
  IF rows = <<>> THEN <<>>
  ELSE <<Decode(Head(rows))>> \o DecodeAll(Tail(rows))

\* the entries a file contributes
Kept(rows, q) ==
  DecodeAll(SelectSeq(rows, LAMBDA r : Matches(r, q.start, q.end, q.sid)))

Query(start, end, sid) == [start |-> start, end |-> end, sid |-> sid]
WholeRange == Query(TimeMin, TimeMax, None)

ReaderDone(e, out) ==
  [pc |-> "done", res |-> e, out |-> out, q |-> reader.q,
   order |-> IF "order" \in DOMAIN reader THEN reader.order ELSE <<>>]

\* lines 92-94: entries = [] and the list [self.current_file] is built
ReadStart(q) ==
  /\ reader.pc = "idle"
  /\ reader' = [pc |-> "exists", q |-> q, path |-> current_file,
                entries |-> <<>>]
  /\ UNCHANGED <<loggerVars, sensor>>

\* line 95: csv_path.exists()
ReadExists ==
  /\ reader.pc = "exists"
  /\ reader' = [reader EXCEPT
                  !.pc = IF reader.path \in DOMAIN files
                           THEN "open" ELSE "glob"]
  /\ UNCHANGED <<loggerVars, sensor>>

\* line 96 when the file was deleted after line 95: FileNotFoundError
ReadActiveVanished ==
  /\ reader.pc = "open"
  /\ reader.path \notin DOMAIN files
  /\ reader' = ReaderDone("FileNotFoundError", <<>>)
  /\ UNCHANGED <<loggerVars, sensor>>

\* lines 96-106: the rows of the active file
ReadActive ==
  /\ reader.pc = "open"
  /\ reader.path \in DOMAIN files
  /\ ~FileRaises(files[reader.path].rows, reader.q)
  /\ reader' = [reader EXCEPT
                  !.pc = "glob",
                  !.entries = @ \o Kept(files[reader.path].rows, reader.q)]
  /\ UNCHANGED <<loggerVars, sensor>>

\* line 108: the archives are listed, in any order
ReadGlob ==
  /\ reader.pc = "glob"
  /\ \E o \in Orders(archives) :
       reader' = [pc |-> "zip", q |-> reader.q, entries |-> reader.entries,
                  todo |-> o, order |-> o]
  /\ UNCHANGED <<loggerVars, sensor>>

\* line 109 when the archive was deleted after line 108
ReadArchiveVanished ==
  /\ reader.pc = "zip"
  /\ reader.todo # <<>>
  /\ Head(reader.todo) \notin DOMAIN archives
  /\ reader' = ReaderDone("FileNotFoundError", <<>>)
  /\ UNCHANGED <<loggerVars, sensor>>

\* line 109 on an incomplete archive: BadZipFile
ReadArchiveDamaged ==
  /\ reader.pc = "zip"
  /\ reader.todo # <<>>
  /\ Head(reader.todo) \in DOMAIN archives
  /\ archives[Head(reader.todo)].bad
  /\ reader' = ReaderDone("BadZipFile", <<>>)
  /\ UNCHANGED <<loggerVars, sensor>>

\* lines 109-121: the rows of one archive
ReadArchive ==
  /\ reader.pc = "zip"
  /\ reader.todo # <<>>
  /\ Head(reader.todo) \in DOMAIN archives
  /\ ~archives[Head(reader.todo)].bad
  /\ ~FileRaises(archives[Head(reader.todo)].rows, reader.q)
  /\ reader' = [reader EXCEPT
                  !.todo = Tail(@),
                  !.entries =
                     @ \o Kept(archives[Head(reader.todo)].rows, reader.q)]
  /\ UNCHANGED <<loggerVars, sensor>>

\* the file being read, once it has been opened
ReaderRows ==
  IF reader.pc = "open" /\ reader.path \in DOMAIN files
    THEN files[reader.path].rows
  ELSE IF /\ reader.pc = "zip" /\ reader.todo # <<>>
          /\ Head(reader.todo) \in DOMAIN archives
          /\ ~archives[Head(reader.todo)].bad
    THEN archives[Head(reader.todo)].rows
  ELSE <<>>

\* lines 99, 104, 114, 119 raising on a row that does not decode
ReadMalformed ==
  /\ reader.pc \in {"open", "zip"}
  /\ FileRaises(ReaderRows, reader.q)
  /\ reader' = ReaderDone(RaisedBy(ReaderRows, reader.q), <<>>)
  /\ UNCHANGED <<loggerVars, sensor>>

\* line 123
ReadReturn ==
  /\ reader.pc = "zip"
  /\ reader.todo = <<>>
  /\ reader' = ReaderDone("ok", SortByTimestamp(reader.entries))
  /\ UNCHANGED <<loggerVars, sensor>>

\* no update call is in progress
AllIdle == \A t \in Threads : pc[t] = "idle"

\* the part of a constructed Logger that no call has touched yet
NoCallYet ==
  /\ lock = NoThread
  /\ pc = [t \in Threads |-> "idle"]
  /\ rec = [t \in Threads |-> NoRec]
  /\ stamp = [t \in Threads |-> 0]
  /\ res = [t \in Threads |-> "none"]
  /\ log = <<>>
  /\ nCalls = 0
  /\ faults = 0
  /\ rotFailed = FALSE
  /\ reader = NoReader

\* ---- read_logs over a log directory that nobody writes to ----------------
Row(t, s, v) == [timestamp |-> t, sensor_id |-> s, value |-> v]

\* rows written by update, and rows that do not decode
GoodRows == {Row(0, "s1", 1), Row(1, "s1", 2), Row(1, "s2", 3)}
BadRows ==
  { [timestamp |-> 0, sensor_id |-> "s1", value |-> 0, bad |-> "timestamp"],
    [timestamp |-> 1, sensor_id |-> "s1", value |-> 0, bad |-> "value"],
    [timestamp |-> 1, sensor_id |-> "", value |-> 0, bad |-> "short"] }
StoredRows == GoodRows \cup BadRows

ActiveContents ==
  {<<>>} \cup {<<r>> : r \in StoredRows}
         \cup {<<r1, r2>> : r1 \in StoredRows, r2 \in StoredRows}
ArchiveContents ==
  {Damaged} \cup {[hdr |-> 1, rows |-> <<>>, bad |-> FALSE]}
            \cup {[hdr |-> 1, rows |-> <<r>>, bad |-> FALSE] : r \in StoredRows}

Queries ==
  { Query(start, end, sid) :
      start \in {TimeMin, 1}, end \in {0, 1, TimeMax}, sid \in {None, "s1"} }

InitRead ==
  /\ now = 0
  /\ cfg = Cfg(1, Far, Far, Far, FALSE)
  /\ current_file = FileName(cfg, now)
  /\ \E rows \in ActiveContents :
       files = Put(<<>>, current_file, [hdr |-> 1, rows |-> rows, mtime |-> now, ctime |-> now])
  /\ \E c1, c2 \in ArchiveContents :
       archives = [k \in {Older, Old, Foreign} |->
                     IF k = Older THEN c1 ELSE IF k = Old THEN c2
                     ELSE Damaged]
  /\ fp = [open |-> TRUE, buf |-> <<>>]
  /\ line_count = 0
  /\ NoCallYet
  /\ sensor = NoSensor

NextRead ==
  \/ \E q \in Queries : ReadStart(q)
  \/ ReadExists
  \/ ReadActive
  \/ ReadGlob
  \/ ReadArchive
  \/ ReadArchiveDamaged
  \/ ReadMalformed
  \/ ReadReturn

SpecRead == InitRead /\ [][NextRead]_vars

\* ---- one caller and one reader on the same Logger ------------------------
RaceConfigs ==
  { Cfg(1, Far, Far, rd, FALSE) : rd \in {0, Far} }

InitRace ==
  /\ now = 0
  /\ cfg \in RaceConfigs
  /\ current_file = FileName(cfg, now)
  /\ files = OpenFile(<<>>, current_file, now)
  /\ archives = <<>>
  /\ fp = [open |-> TRUE, buf |-> <<>>]
  /\ line_count = 0
  /\ NoCallYet
  /\ sensor = NoSensor

NextRace ==
  \/ NextSeq
  \/ ReadStart(WholeRange)
  \/ ReadExists
  \/ ReadActive
  \/ ReadActiveVanished
  \/ ReadGlob
  \/ ReadArchive
  \/ ReadArchiveVanished
  \/ ReadArchiveDamaged
  \/ ReadReturn

SpecRace == InitRace /\ [][NextRace]_vars

\* ---- close(), and a later Logger on the same directory ------------------
\* close(): the handle is closed, what it still buffers reaches the file
Close ==
  /\ AllIdle
  /\ fp.open
  /\ files' = FlushTo(files, current_file, fp.buf, now)
  /\ fp' = [open |-> FALSE, buf |-> <<>>]
  /\ UNCHANGED <<now, cfg, archives, current_file, line_count, lock, pc, rec,
                 stamp, res, log, nCalls, faults, rotFailed, reader, sensor>>

\* Logger(config_path) once the handle of the earlier instance is closed:
\* the active file is named after the clock, opened (and created when
\* absent), and the count starts at 0
Construct ==
  /\ AllIdle
  /\ ~fp.open
  /\ lock' = NoThread
  /\ current_file' = FileName(cfg, now)
  /\ files' = OpenFile(files, FileName(cfg, now), now)
  /\ fp' = [open |-> TRUE, buf |-> <<>>]
  /\ line_count' = 0
  /\ UNCHANGED <<now, cfg, archives, pc, rec, stamp, res, log, nCalls, faults,
                 rotFailed, reader, sensor>>

LifeConfigs ==
  { Cfg(ra, Far, Far, Far, ps) : ra \in {1, 2}, ps \in BOOLEAN }

InitLife ==
  /\ now = 0
  /\ cfg \in LifeConfigs
  /\ current_file = FileName(cfg, now)
  /\ files = OpenFile(<<>>, current_file, now)
  /\ archives = <<>>
  /\ fp = [open |-> TRUE, buf |-> <<>>]
  /\ line_count = 0
  /\ NoCallYet
  /\ sensor = NoSensor

NextLife ==
  \/ NextSeq
  \/ Close
  \/ Construct

SpecLife == InitLife /\ [][NextLife]_vars

\* ---- Sensor: the subject of the observer pattern -------------------------
\* "o1" is an object with an update method, "o2" a plain callable; both
\* record what they are called with
Observers == {"o1", "o2"}
RawValues == {1, 2}
Factors == {1, 2}

\* Sensor.__init__; an Optional value is a sequence of at most one element.
\* notes, attached, again, reads and res are history: what each observer has
\* been called with, whose last attach/detach was an attach, who was attached
\* while attached, the number of read() calls and how the last one ended.
NewSensor(f) ==
  [id |-> "s1", factor |-> f, observers |-> <<>>, active |-> FALSE,
   last |-> <<>>, notes |-> [o \in Observers |-> <<>>], attached |-> {},
   again |-> {}, reads |-> 0, res |-> "none", ret |-> <<>>]

IsIn(o, obs) == \E i \in DOMAIN obs : obs[i] = o

\* list.remove: the first occurrence
Remove(obs, o) ==
  LET i == CHOOSE j \in DOMAIN obs :
             obs[j] = o /\ \A k \in 1..(j - 1) : obs[k] # o
  IN  SubSeq(obs, 1, i - 1) \o SubSeq(obs, i + 1, Len(obs))

\* attach without the membership test
AttachAlways(o) ==
  /\ sensor.reads < MaxCalls
  /\ Len(sensor.observers) < Cardinality(Observers) + 1
  /\ sensor' = [sensor EXCEPT
                  !.observers = Append(@, o),
                  !.attached = @ \cup {o},
                  !.again = IF IsIn(o, sensor.observers) THEN @ \cup {o} ELSE @]
  /\ UNCHANGED <<loggerVars, reader>>

Attach(o) ==
  /\ sensor.reads < MaxCalls
  /\ sensor' = [sensor EXCEPT
                  !.observers = IF IsIn(o, @) THEN @ ELSE Append(@, o),
                  !.attached = @ \cup {o},
                  !.again = IF IsIn(o, sensor.observers) THEN @ \cup {o} ELSE @]
  /\ UNCHANGED <<loggerVars, reader>>

Detach(o) ==
  /\ sensor.reads < MaxCalls
  /\ sensor' = [sensor EXCEPT
                  !.observers = IF IsIn(o, @) THEN Remove(@, o) ELSE @,
                  !.attached = @ \ {o}]
  /\ UNCHANGED <<loggerVars, reader>>

Start ==
  /\ ~sensor.active
  /\ sensor' = [sensor EXCEPT !.active = TRUE]
  /\ UNCHANGED <<loggerVars, reader>>

Stop ==
  /\ sensor.active
  /\ sensor' = [sensor EXCEPT !.active = FALSE]
  /\ UNCHANGED <<loggerVars, reader>>

\* notify: one call per element of the observer list, in list order
RECURSIVE Notify(_, _, _)
Notify(notes, obs, n) ==
  IF obs = <<>> THEN notes
  ELSE Notify([notes EXCEPT ![Head(obs)] = Append(@, n)], Tail(obs), n)

\* read() on an active sensor whose _generate gives raw
Reading(sn, raw) ==
  LET calibrated == raw * sn.factor
  IN  [sn EXCEPT
         !.last = <<calibrated>>,
         !.notes = Notify(@, sn.observers,
                          [sensor |-> sn.id, value |-> calibrated]),
         !.reads = @ + 1,
         !.res = "ok",
         !.ret = <<calibrated>>]

SensorRead ==
  /\ sensor.reads < MaxCalls
  /\ sensor.active
  /\ \E raw \in RawValues : sensor' = Reading(sensor, raw)
  /\ UNCHANGED <<loggerVars, reader>>

\* read() on a sensor that was not started, or was stopped
SensorReadInactive ==
  /\ sensor.reads < MaxCalls
  /\ ~sensor.active
  /\ sensor' = [sensor EXCEPT
                  !.reads = @ + 1, !.res = "RuntimeError", !.ret = <<>>]
  /\ UNCHANGED <<loggerVars, reader>>

\* get_last() when a value is cached; without one it is read()
GetLast ==
  /\ sensor.last # <<>>
  /\ sensor.res # "last"
  /\ sensor' = [sensor EXCEPT !.res = "last", !.ret = sensor.last]
  /\ UNCHANGED <<loggerVars, reader>>

InitSensor ==
  /\ now = 0
  /\ cfg = Cfg(1, Far, Far, Far, FALSE)
  /\ current_file = FileName(cfg, now)
  /\ files = OpenFile(<<>>, current_file, now)
  /\ archives = <<>>
  /\ fp = [open |-> TRUE, buf |-> <<>>]
  /\ line_count = 0
  /\ NoCallYet
  /\ \E f \in Factors : sensor = NewSensor(f)

NextSensor ==
  \/ \E o \in Observers : Attach(o)
  \/ \E o \in Observers : Detach(o)
  \/ Start
  \/ Stop
  \/ SensorRead
  \/ SensorReadInactive
  \/ GetLast

SpecSensor == InitSensor /\ [][NextSensor]_vars

\* ---- properties ---------------------------------------------------------
InUpdate == {"write", "flush", "check", "close", "zip", "unlink", "reopen",
             "cleanup"}
InRotate == {"close", "zip", "unlink", "reopen", "cleanup"}

AllReturned == \A t \in Threads : pc[t] = "idle"

\* no archive has reached the retention window so far
RetentionNotReached == cfg.retention * DayTicks > now

ActiveRows == IF current_file \in DOMAIN files
                THEN files[current_file].rows ELSE <<>>

Occurrences(s, v) == Cardinality({i \in DOMAIN s : s[i].value = v})

RECURSIVE SumOver(_, _, _)
SumOver(ar, ks, v) ==
  IF ks = {} THEN 0
  ELSE LET k == CHOOSE x \in ks : TRUE
       IN  Occurrences(ar[k].rows, v) + SumOver(ar, ks \ {k}, v)

\* how often the reading numbered v is stored, active file and archives
Stored(v) == Occurrences(ActiveRows, v) + SumOver(archives, DOMAIN archives, v)

RECURSIVE RowTotal(_, _)
RowTotal(ar, ks) ==
  IF ks = {} THEN 0
  ELSE LET k == CHOOSE x \in ks : TRUE
       IN  Len(ar[k].rows) + RowTotal(ar, ks \ {k})

TotalRows == Len(ActiveRows) + RowTotal(archives, DOMAIN archives)

\* C1: the steps of update from the write of the row to the end of _rotate
\* are executed by at most one thread at a time, and only by the thread
\* that holds the lock; so no two threads are inside _rotate together.
C1_Exclusive ==
  /\ \A t \in Threads : pc[t] \in InUpdate => lock = t
  /\ \A t1, t2 \in Threads :
       (pc[t1] \in InUpdate /\ pc[t2] \in InUpdate) => t1 = t2
  /\ Cardinality({t \in Threads : pc[t] \in InRotate}) <= 1

\* one thread is compressing while another waits for the lock
C1_Witness ==
  \E t1, t2 \in Threads : t1 # t2 /\ pc[t1] = "zip" /\ pc[t2] = "lock"

\* C2: once all update calls have returned (none failed, retention window
\* not reached) the active file and the archives together hold exactly one
\* row per call.
C2_AllRowsKept ==
  (AllReturned /\ faults = 0 /\ RetentionNotReached)
    => /\ TotalRows = nCalls
       /\ \A v \in 1..nCalls : Stored(v) = 1

\* C3: with no update in progress (none failed, retention window not
\* reached) read_logs over the whole time range without sensor filter
\* returns every reading passed to update exactly once.
C3_ReadAll ==
  (AllReturned /\ faults = 0 /\ RetentionNotReached)
    => \A o \in Orders(archives) :
         LET out == ReadLogs(files, current_file, archives, o,
                             TimeMin, TimeMax, None)
         IN  /\ Len(out) = nCalls
             /\ \A v \in 1..nCalls : Occurrences(out, v) = 1

\* the age and the size threshold lie beyond anything a file can reach
OnlyLineTrigger ==
  /\ cfg.rotate_every * HourTicks > MaxClock
  /\ cfg.max_size * MiB > MaxCalls + 1

N == cfg.rotate_after
Quiet == lock = NoThread
ArchiveCount == Cardinality(DOMAIN archives)
FirstRows(n) == SubSeq(log, 1, n)

\* the only archive is intact and holds exactly the rows s
OneArchiveOf(s) ==
  /\ ArchiveCount = 1
  /\ \A k \in DOMAIN archives : ~archives[k].bad /\ archives[k].rows = s

\* C4 as stated: the first N updates create no archive (and the N+1-th
\* rotates before it writes).
C4_NoArchiveInFirstN ==
  (OnlyLineTrigger /\ faults = 0 /\ nCalls <= N) => ArchiveCount = 0

\* C4 amended: with only the line trigger in reach, the first N-1 updates
\* create no archive; the N-th update writes its row into the first file,
\* finds the predicate true and archives the first N rows, leaving an empty
\* new active file; the N+1-th update writes its row into that new file.
C4_RotateOnNth ==
  (OnlyLineTrigger /\ faults = 0 /\ RetentionNotReached) =>
    /\ Len(log) < N => (ArchiveCount = 0 /\ ActiveRows = log)
    /\ \A t \in Threads :
         (pc[t] \in {"check", "close"} /\ Len(log) = N)
           => (ArchiveCount = 0 /\ ActiveRows = FirstRows(N))
    /\ (Quiet /\ Len(log) = N)
         => (OneArchiveOf(FirstRows(N)) /\ ActiveRows = <<>>
             /\ current_file \in DOMAIN files)
    /\ \A t \in Threads :
         (pc[t] = "check" /\ Len(log) = N + 1)
           => (OneArchiveOf(FirstRows(N)) /\ ActiveRows = <<log[N + 1]>>)

\* the N+1-th update has just written its row, N = 2
C4_Witness ==
  /\ OnlyLineTrigger /\ faults = 0 /\ RetentionNotReached /\ N = 2
  /\ \E t \in Threads : pc[t] = "check" /\ Len(log) = N + 1
  /\ ArchiveCount = 1

Increasing(s) ==
  \A i, j \in DOMAIN s : i < j => s[i].timestamp < s[j].timestamp
NonDecreasing(s) ==
  \A i, j \in DOMAIN s : i < j => s[i].timestamp <= s[j].timestamp
SameRows(s1, s2) ==
  /\ Len(s1) = Len(s2)
  /\ \A i \in DOMAIN s2 : Cardinality({j \in DOMAIN s1 : s1[j] = s2[i]}) = 1

ReadEverything(o) ==
  ReadLogs(files, current_file, archives, o, TimeMin, TimeMax, None)

\* C5 as stated: for every line threshold N (age and size out of reach, no
\* archive expired), after the N-th update the count is 0 and an archive
\* exists; after the N+1-th the count is 1, one archive holds the first N
\* readings, the active file holds the N+1-th, and read_logs returns all
\* in append order.
C5_AsStated ==
  (OnlyLineTrigger /\ faults = 0 /\ Quiet /\ RetentionNotReached) =>
    /\ Len(log) = N => (line_count = 0 /\ ArchiveCount >= 1)
    /\ Len(log) = N + 1 =>
         /\ line_count = 1
         /\ OneArchiveOf(FirstRows(N))
         /\ ActiveRows = <<log[N + 1]>>
         /\ \A o \in Orders(archives) : ReadEverything(o) = log

\* C5 amended: the same for N >= 2 while the retention window is not
\* reached, read_logs returning the N+1 readings sorted by timestamp, which
\* is the append order when the timestamps increase strictly.
C5_Scenario ==
  (OnlyLineTrigger /\ faults = 0 /\ Quiet /\ N >= 2 /\ RetentionNotReached)
  =>
    /\ Len(log) = N => (line_count = 0 /\ ArchiveCount = 1)
    /\ Len(log) = N + 1 =>
         /\ line_count = 1
         /\ OneArchiveOf(FirstRows(N))
         /\ ActiveRows = <<log[N + 1]>>
         /\ \A o \in Orders(archives) :
              /\ SameRows(ReadEverything(o), log)
              /\ NonDecreasing(ReadEverything(o))
              /\ Increasing(log) => ReadEverything(o) = log

\* three updates have returned with threshold 2, at increasing times
C5_Witness ==
  /\ OnlyLineTrigger /\ faults = 0 /\ Quiet /\ N = 2 /\ RetentionNotReached
  /\ Len(log) = N + 1 /\ Increasing(log) /\ AllReturned

\* age of the active file since its creation, in ticks
AgeSinceCreation(t) == t - files[current_file].ctime

\* C6: an update called when the active file was created at least
\* rotate_every_hours ago rotates before it returns.
C6_AgedFileRotates ==
  [][\A t \in Threads :
       ( /\ pc[t] = "check" /\ pc'[t] # "check"
         /\ AgeSinceCreation(rec[t].timestamp)
              >= cfg.rotate_every * HourTicks )
       => pc'[t] = "close"]_vars

\* the three triggers, each stated on the state in which line 48 runs
LineDue == line_count + 1 >= cfg.rotate_after
AgeDue == now - files[current_file].mtime >= cfg.rotate_every * HourTicks
SizeDue == Size(files[current_file]) >= cfg.max_size * MiB

\* C7: the update enters _rotate exactly when at least one of the three
\* triggers holds; the age is the time since the last modification.
C7_AnyTrigger ==
  [][\A t \in Threads :
       (pc[t] = "check" /\ pc'[t] # "check")
       => /\ (LineDue \/ AgeDue \/ SizeDue) => pc'[t] = "close"
          /\ ~(LineDue \/ AgeDue \/ SizeDue)
               => (pc'[t] = "idle" /\ res'[t] = "ok"
                   /\ archives' = archives /\ files' = files)]_vars

\* a rotation started although the line count is below its threshold
C7_Witness ==
  \E t \in Threads : pc[t] = "close" /\ line_count < cfg.rotate_after

\* C8: the handle is closed when compression starts; a file leaves the log
\* directory only when an intact archive holds all its rows; a failed
\* compression leaves the original with all its rows and raises.
C8_SealThenDelete ==
  [][\A t \in Threads :
       /\ (pc[t] # "zip" /\ pc'[t] = "zip") => (~fp'.open /\ fp'.buf = <<>>)
       /\ pc[t] = "zip" => ~fp.open
       /\ \A n \in DOMAIN files \ DOMAIN files' :
            \E k \in DOMAIN archives :
              /\ k.base = n
              /\ ~archives[k].bad
              /\ archives[k].rows = files[n].rows
              /\ archives[k].hdr = files[n].hdr
       /\ (pc[t] = "zip" /\ pc'[t] = "idle")
            => /\ current_file \in DOMAIN files'
               /\ files' = files
               /\ res'[t] = "OSError:zip"]_vars

\* a compression failed on a file that holds rows
C8_Witness ==
  /\ \E t \in Threads : res[t] = "OSError:zip"
  /\ current_file \in DOMAIN files
  /\ Len(files[current_file].rows) > 0

\* C9: after a failed rotation the writer still has its active file open
\* and writable, and no later update fails on a closed handle.
C9_UsableAfterFailure ==
  /\ (rotFailed /\ Quiet) => (fp.open /\ current_file \in DOMAIN files)
  /\ \A t \in Threads : res[t] # "ValueError"

\* C10: an update whose write or flush fails raises, leaves the line count
\* as it was, does not check or rotate, and releases the lock.
C10_FailedWrite ==
  [][\A t \in Threads :
       (pc[t] \in {"write", "flush"} /\ pc'[t] = "idle")
       => /\ res'[t] \in {"ValueError", "OSError:flush"}
          /\ line_count' = line_count
          /\ lock' = NoThread
          /\ archives' = archives
          /\ files' = files
          /\ current_file' = current_file]_vars

\* a flush failed and a later update got the lock and wrote its row
C10_Witness ==
  /\ faults > 0 /\ ~rotFailed
  /\ \E t \in Threads : pc[t] = "check"
  /\ Len(ActiveRows) >= 2

\* a step in which thread t runs the retention sweep
SweepStep(t) == pc[t] = "cleanup" /\ pc'[t] = "idle"

\* the age of an archive, by the stamp in its name, exceeds the window
OlderThanWindow(k) == now - k.ts * SecTicks > cfg.retention * DayTicks

\* C11: a sweep in which no unlink fails removes an archive exactly when
\* now minus the stamp in its name exceeds the retention window; no sweep
\* removes a younger archive; a surviving archive keeps its contents.  The
\* contents of an archive play no part.
C11_SweepByName ==
  [][\A t \in Threads : SweepStep(t) =>
       \A k \in {x \in DOMAIN archives : Parsable(x)} :
         /\ k \notin DOMAIN archives' => OlderThanWindow(k)
         /\ (faults' = faults /\ OlderThanWindow(k))
              => k \notin DOMAIN archives'
         /\ k \in DOMAIN archives' => archives'[k] = archives[k]]_vars

\* a sweep removed the archive of the earlier second and kept the one that
\* is exactly retention old
C11_Witness ==
  /\ faults = 0 /\ AllReturned /\ nCalls > 0
  /\ Older \notin DOMAIN archives
  /\ Old \in DOMAIN archives /\ archives[Old] \in {OldArchive, Damaged}
  /\ now - Old.ts * SecTicks = cfg.retention * DayTicks

\* C12: a sweep never removes an entry whose name has no parsable stamp,
\* always returns normally, and every failed unlink spares only its own
\* entry: the expired entries left are as many as the unlinks that failed.
C12_SweepIsolatesEntries ==
  [][\A t \in Threads : SweepStep(t) =>
       /\ res'[t] = "ok"
       /\ \A k \in DOMAIN archives : ~Parsable(k) => k \in DOMAIN archives'
       /\ Cardinality({k \in DOMAIN archives' :
                         Parsable(k) /\ OlderThanWindow(k)})
            = faults' - faults]_vars

\* a sweep met the foreign entry and a failing unlink and still removed
\* the other expired archive
C12_Witness ==
  /\ cfg.retention = 0 /\ AllReturned /\ res[Caller] = "ok"
  /\ faults = 1 /\ ~rotFailed /\ Len(log) = nCalls /\ nCalls > 0
  /\ Foreign \in DOMAIN archives
  /\ Older \in DOMAIN archives /\ Old \notin DOMAIN archives

\* C13: while nothing fails, a step never changes the contents of an
\* existing archive, removes an archive only in the retention sweep, and
\* adds only archives whose stamp is not below that of any existing one.
C13_ArchivesImmutable ==
  [][faults' = 0 =>
       /\ \A k \in DOMAIN archives :
            /\ k \in DOMAIN archives' => archives'[k] = archives[k]
            /\ k \notin DOMAIN archives' => \E t \in Threads : SweepStep(t)
       /\ \A k2 \in DOMAIN archives' \ DOMAIN archives :
            \A k \in DOMAIN archives : k2.ts >= k.ts]_vars

\* C14: a read_logs call never ends with an error for a file that was
\* deleted between being checked or listed and being opened.
C14_ReadSurvivesVanishing ==
  reader.pc = "done" => reader.res # "FileNotFoundError"

\* C20: a read_logs call that returns while nothing has failed returns no
\* reading twice.
C20_NoReadingTwice ==
  (reader.pc = "done" /\ reader.res = "ok" /\ faults = 0)
    => \A v \in 1..nCalls : Occurrences(reader.out, v) <= 1

\* C15: read_logs never aborts because of a row that does not decode.
C15_SkipsMalformed ==
  reader.pc = "done" => reader.res \notin {"ValueError", "TypeError"}

\* the stored rows in the order read_logs scanned them
Scanned == Scan(files, current_file, archives, reader.order)
At(s, t) == SelectSeq(s, LAMBDA r : r.timestamp = t)
Wanted(r) ==
  /\ ~Malformed(r)
  /\ reader.q.start <= r.timestamp
  /\ r.timestamp <= reader.q.end
  /\ (reader.q.sid # None => r.sensor_id = reader.q.sid)
AllDecode ==
  /\ \A i \in DOMAIN Scanned : ~Malformed(Scanned[i])
  /\ \A k \in DOMAIN archives : IsZip(k) => ~archives[k].bad

\* C16: with no writer active, a read_logs call that returns gives exactly
\* the stored rows of the active file and of every archive that lie in
\* [start, end], both ends included, and carry the wanted sensor id when
\* one is given, by ascending timestamp and in scan order within a
\* timestamp; and it does return when every stored row decodes.
C16_ReadFilter ==
  reader.pc = "done" =>
    /\ AllDecode => reader.res = "ok"
    /\ reader.res = "ok" =>
         /\ NonDecreasing(reader.out)
         /\ \A t \in TimeMin..TimeMax :
              At(reader.out, t) = At(SelectSeq(Scanned, Wanted), t)
         /\ \A i \in DOMAIN reader.out :
              reader.out[i].timestamp \in TimeMin..TimeMax

C16_Witness ==
  /\ reader.pc = "done"
  /\ reader.res = "ok"
  /\ reader.q = Query(1, 1, "s1")
  /\ reader.out = <<Row(1, "s1", 2), Row(1, "s1", 2)>>
  /\ files[current_file].rows = <<Row(1, "s2", 3), Row(1, "s1", 2)>>
  /\ archives[Old].rows = <<Row(0, "s1", 1)>>
  /\ archives[Older].rows = <<Row(1, "s1", 2)>>

ReadCall == sensor'.reads = sensor.reads + 1

Sealed == {k \in DOMAIN archives : IsZip(k) /\ ~archives[k].bad}

\* C18: every file of the log directory and every completely written
\* archive holds the header exactly once (the header is written only into
\* a file that is being created, so it is the first line).
C18_HeaderOnce ==
  /\ \A f \in DOMAIN files : files[f].hdr = 1
  /\ \A k \in Sealed : archives[k].hdr = 1

C18_Witness ==
  /\ faults = 0
  /\ AllIdle
  /\ fp.open
  /\ nCalls = MaxCalls
  /\ line_count = 0
  /\ Len(ActiveRows) = 1
  /\ files[current_file].hdr = 1
  /\ \E k \in Sealed : Len(archives[k].rows) = 2 /\ archives[k].hdr = 1

\* C19: while no update call is in progress and nothing has failed, the
\* line count equals the number of data rows of the active file, which is
\* below rotate_after_lines.
C19_CountIsRows ==
  (AllIdle /\ faults = 0 /\ fp.open)
    => /\ line_count = Len(ActiveRows)
       /\ Len(ActiveRows) < cfg.rotate_after
====
